---- MODULE Spec2Model ----
(***************************************************************************)
(* A model of game-server-base (gsb): the command dispatch of Parser, the  *)
(* dispatcher assignment of Protocol and the interactive overrides         *)
(* Intercept, Menu, Reader and YesOrNo.                                    *)
(*                                                                         *)
(* One connection is modelled.  Text is modelled by TLA+ strings, on which *)
(* TLC evaluates Len, \o and SubSeq.  The variables sent, trace, ret and   *)
(* exc describe the last operation only: what it sent to the connection,   *)
(* which hooks and handlers it called, what it returned and which          *)
(* exception escaped from it.                                              *)
(***************************************************************************)
EXTENDS Integers, Sequences, FiniteSets, TLC

\* Python's None
None == "None"

----------------------------------------------------------------------------
(* Bounds of the model *)

\* at most this many Commands are registered under one name
MaxOverloads == 2

\* at most this many substitutions are entered in one substitution table
MaxSubstitutions == 1

\* a Reader takes a line only while its buffer is no longer than this
MaxBuffer == 1

\* the most validators that and_ or or_ is given at the top of a permission
MaxValidators == 2

\* the most items of a Menu that Menu.item adds to
MaxItems == 4

----------------------------------------------------------------------------
(* Text *)

CharAt(s, i) == SubSeq(s, i, i)

\* s[i:] of Python, i counted from 0
From(s, i) == SubSeq(s, i + 1, Len(s))

\* str.startswith
StartsWith(s, p) == Len(p) <= Len(s) /\ SubSeq(s, 1, Len(p)) = p

\* str.find, counted from 1; 0 when sep does not occur in s
Find(s, sep) ==
    LET hits == {i \in 1..Len(s) : StartsWith(From(s, i - 1), sep)}
    IN IF hits = {} THEN 0 ELSE CHOOSE i \in hits : \A j \in hits : i <= j

\* str.lower, on the letters the model's lines use
LowerChar(c) ==
    LET i == Find("ABCDEFGHIJKLMNOPQRSTUVWXYZ", c)
    IN IF c # "" /\ i > 0 THEN CharAt("abcdefghijklmnopqrstuvwxyz", i) ELSE c

RECURSIVE Lower(_)
Lower(s) == IF s = "" THEN "" ELSE LowerChar(CharAt(s, 1)) \o Lower(From(s, 1))

\* sep.join(parts)
RECURSIVE Join(_, _)
Join(parts, sep) ==
    IF Len(parts) = 0 THEN ""
    ELSE IF Len(parts) = 1 THEN parts[1]
    ELSE parts[1] \o sep \o Join(Tail(parts), sep)

----------------------------------------------------------------------------
(* The objects of the session *)

\* "base" is Server.default_parser, built by Parser(); "alt" is a Parser
\* built with registries of its own, Parser(commands={}, command_substitutions={})
Parsers == {"base", "alt"}

\* one instance of each flow: Menu(items=...), Reader(...), YesOrNo(...)
Intercepts == {"menu", "reader", "yesno"}

Dispatchers == Parsers \cup Intercepts

default_parser == "base"

\* The dict a dispatcher holds in self.commands (and, likewise, in
\* self.command_substitutions): the default argument of Parser.__init__ is
\* one dict, evaluated once, and Intercept.__init__ calls
\* super().__init__() without arguments.
Registries == {"default", "alt"}

RegistryOf(d) == IF d = "alt" THEN "alt" ELSE "default"

command_separator == " "

abort_command == "@abort"

aborted == "Aborted"

\* Reader attributes
line_separator == "\n"

done_command == "."

spell_check_command == ".spell"

before_line == "Next line:"

after_line == "Line received."

\* Menu attributes
title == "Select an item:"

menu_prompt == "Type a number or @abort to abort."

\* YesOrNo attributes
question == "Are you sure?"

yesno_prompt == "Enter \"yes\" or \"no\" or " \o abort_command \o " to abort the command."

VARIABLES
    parser,                 \* Protocol._parser of the connection
    commands,               \* registry -> (name -> sequence of Commands)
    command_substitutions,  \* registry -> sequence of <<key, full name>>
    restore_parser,         \* Intercept.restore_parser of each override
    no_abort,               \* Intercept.no_abort of each override
    persistent,             \* Menu.persistent
    items,                  \* Menu.items
    multiline,              \* Reader.multiline
    no,                     \* YesOrNo.no: None or what the callback does
    buffer,                 \* Reader.buffer
    refuses,                \* the Parsers whose pre_command the application has
                            \* replaced by a hook that returns False
    attached_over,          \* old_parser of the on_attach of the current override
    op,                     \* the last operation: its name, its input, and the
                            \* dispatcher d of the connection before it, with
                            \* what d was attached over and the attributes it
                            \* had before the operation
    sent,                   \* the lines it sent to the connection
    trace,                  \* the hooks and handlers it called, in order
    ret,                    \* what it returned
    exc                     \* the exception that escaped from it, or None

vars == <<parser, commands, command_substitutions, restore_parser, no_abort,
          persistent, items, multiline, no, buffer, refuses, attached_over, op,
          sent, trace, ret, exc>>

----------------------------------------------------------------------------
(* The state an operation works on, and the record of what it did *)

\* an entry of trace: hook or handler ev of dispatcher d, for overload or
\* item k, with the other dispatcher o and the captures a; n is the number
\* of lines sent to the connection before it and p the dispatcher of the
\* connection when it is called
Event(ev, d, k, o, a) ==
    [ev |-> ev, d |-> d, k |-> k, o |-> o, a |-> a, n |-> 0, p |-> None]

World == [parser |-> parser, restore_parser |-> restore_parser,
          no_abort |-> no_abort, persistent |-> persistent, items |-> items,
          multiline |-> multiline, no |-> no, buffer |-> buffer,
          sent |-> <<>>, trace |-> <<>>, exc |-> None]

Log(w, e) ==
    IF w.exc # None THEN w
    ELSE [w EXCEPT !.trace = Append(@, [e EXCEPT !.n = Len(w.sent), !.p = w.parser])]

Raise(w, e) == IF w.exc # None THEN w ELSE [w EXCEPT !.exc = e]

\* Server.notify with a text: the line is sent to the connection
notify(w, text) ==
    IF w.exc # None THEN w ELSE [w EXCEPT !.sent = Append(@, text)]

\* Intercept.send with a text (no value of the model is a callable)
send(w, value) == notify(w, value)

----------------------------------------------------------------------------
(* Callbacks and handlers.  What a function of the application does when   *)
(* it is called with a Caller is one of: it returns, it raises an          *)
(* exception, it calls caller.dont_stop(), or it hands a dispatcher to     *)
(* connection.notify and returns (the value is then that dispatcher).      *)

Behaviours == {"return", "raise", "dont_stop"} \cup Dispatchers

\* A list of MenuItems as Menu.__init__ leaves it, numbered from 1
Fruit == << [text |-> "Apple",   func |-> "return", index |-> 1],
            [text |-> "Apricot", func |-> "raise",  index |-> 2],
            [text |-> "Banana",  func |-> "yesno",  index |-> 3] >>

\* Menu.labels: text and the position of the item it comes after, 0 for None
labels == << [text |-> "Fruit", after |-> 0] >>

\* Reader.done
done == "return"

\* YesOrNo.yes
yes == "return"

\* MenuItem.as_string; an index has one digit in the model
as_string(i) == "[" \o CharAt("0123456789", i.index + 1) \o "] " \o i.text

RECURSIVE send_labels(_, _, _)
send_labels(w, after, k) ==
    IF k > Len(labels) THEN w
    ELSE send_labels(IF labels[k].after = after THEN notify(w, labels[k].text) ELSE w,
                     after, k + 1)

\* Menu.send_items: its, the items to send, are positions in items
RECURSIVE send_items_from(_, _, _)
send_items_from(w, its, k) ==
    IF k > Len(its) THEN w
    ELSE send_items_from(send_labels(notify(w, as_string(w.items[its[k]])), its[k], 1),
                         its, k + 1)

send_items(w, its) == send_items_from(send_labels(w, 0, 1), its, 1)

AllItems(w) == [k \in 1..Len(w.items) |-> k]

\* Intercept.explain as overridden by Menu, Reader and YesOrNo, with one
\* argument
explain_intercept(d, w) ==
    CASE d = "menu" ->
            send(send_items(notify(w, title), AllItems(w)), menu_prompt)
      [] d = "reader" ->
            LET exit == IF w.no_abort[d] = None
                        THEN " or " \o abort_command \o " to exit" ELSE ""
                w1 == IF w.multiline
                      THEN notify(w, "Enter lines of text. Type " \o done_command
                                     \o " on a blank line to finish" \o exit \o ".")
                      ELSE notify(w, "Enter a line of text" \o exit \o ".")
            IN IF before_line # None THEN send(w1, before_line) ELSE w1
      [] d = "yesno" ->
            notify(notify(w, question), yesno_prompt)
      [] OTHER -> w

\* Parser.on_detach
on_detach(d, w, new_parser) == Log(w, Event("on_detach", d, 0, new_parser, <<>>))

\* Parser.on_attach for every class
on_attach_of_parser(d, w, old_parser) ==
    Log(w, Event("on_attach", d, 0, old_parser, <<>>))

\* Parser.on_attach, and Intercept.on_attach for an override
on_attach(d, w, old_parser) ==
    LET w1 == Log(w, Event("on_attach", d, 0, old_parser, <<>>))
    IN IF d \in Intercepts THEN explain_intercept(d, w1) ELSE w1

\* the setter with on_attach called before self._parser is assigned
set_parser_attaches_first(w, value) ==
    IF w.exc # None THEN w
    ELSE LET old_parser == w.parser
             w1 == IF old_parser # None THEN on_detach(old_parser, w, value) ELSE w
             v  == IF value = None THEN default_parser ELSE value
             w2 == on_attach(v, w1, old_parser)
         IN [w2 EXCEPT !.parser = v]

\* the setter without the fallback on the default parser of the server
set_parser_without_fallback(w, value) ==
    IF w.exc # None THEN w
    ELSE LET old_parser == w.parser
             w1 == IF old_parser # None THEN Log(w, Event("on_detach", old_parser, 0, value, <<>>)) ELSE w
             w2 == [w1 EXCEPT !.parser = value]
         IN Log(w2, Event("on_attach", value, 0, old_parser, <<>>))

\* the setter of Protocol.parser
set_parser(w, value) ==
    IF w.exc # None THEN w
    ELSE LET old_parser == w.parser
             w1 == IF old_parser # None THEN on_detach(old_parser, w, value) ELSE w
             v  == IF value = None THEN default_parser ELSE value
             w2 == [w1 EXCEPT !.parser = v]
         IN on_attach(v, w2, old_parser)

\* Server.notify with an instance of Parser
notify_parser(w, d) == set_parser(w, d)

\* a callback or handler of the application is called
Run(w, f) ==
    CASE f = "return"    -> w
      [] f = "raise"     -> Raise(w, "Exception")
      [] f = "dont_stop" -> Raise(w, "DontStopException")
      [] OTHER           -> notify_parser(w, f)

----------------------------------------------------------------------------
(* Commands and argument patterns *)

\* An argument pattern is the regular expression prefix(.*) when group is
\* TRUE and prefix$ when it is FALSE; prefix has no special character.
\* Command.args_regexp is <<>> for None and <<p>> for the compiled pattern p.
Pattern(prefix, group) == << [prefix |-> prefix, group |-> group] >>

NoPattern == <<>>

\* Pattern.match(args) of re: ok is FALSE for None; groups is m.groups()
\* and groupdict is m.groupdict(), as a sequence of <<name, value>>
Match(p, args) ==
    IF p.group
    THEN [ok |-> StartsWith(args, p.prefix),
          groups |-> << From(args, Len(p.prefix)) >>, groupdict |-> <<>>]
    ELSE [ok |-> args = p.prefix, groups |-> <<>>, groupdict |-> <<>>]

\* the Command built by Parser.command for a function without a docstring
Command(names, func, args_regexp, allowed) ==
    [names |-> names, func |-> func, args_regexp |-> args_regexp,
     allowed |-> allowed,
     description |-> "No description available.", help |-> "No help available.",
     id |-> 0]

\* Caller(connection, text=text)
Caller(text) ==
    [text |-> text, command |-> "", args_str |-> "", args |-> <<>>,
     kwargs |-> <<>>, exception |-> None]

\* ok_for without the permission predicate
ok_for_anyone(cmd, caller) == TRUE

\* Command.ok_for: allowed is the verdict of the permission predicate
ok_for(cmd, caller) == cmd.allowed

\* A permission predicate is a function of the application (predicate), or
\* a FuncPermission that and_ or or_ has made from validators.  holds is the
\* set of the names of the functions that return True for the Caller.
predicate(name) == [func |-> "predicate", name |-> name, validators |-> <<>>]

\* permissions.and_
and_(validators) == [func |-> "all", name |-> "", validators |-> validators]

\* permissions.or_
or_(validators) == [func |-> "any", name |-> "", validators |-> validators]

RECURSIVE FuncPermission(_, _, _), all(_, _, _, _), any(_, _, _, _),
          any_of_list(_, _, _, _)

\* any with the values taken from a list in the place of the generator:
\* every validator is called before any looks at a value
any_of_list(validators, i, w, holds) ==
    IF i > Len(validators) THEN [w |-> w, value |-> FALSE]
    ELSE LET r == FuncPermission(validators[i], w, holds)
             t == any_of_list(validators, i + 1, r.w, holds)
         IN [w |-> t.w, value |-> r.value \/ t.value]

\* all(x(caller) for x in validators), from validator i on: the generator
\* calls a validator when all asks for the next value
all(validators, i, w, holds) ==
    IF i > Len(validators) THEN [w |-> w, value |-> TRUE]
    ELSE LET r == FuncPermission(validators[i], w, holds)
         IN IF ~r.value THEN [w |-> r.w, value |-> FALSE]
            ELSE all(validators, i + 1, r.w, holds)

\* any(x(caller) for x in validators), from validator i on
any(validators, i, w, holds) ==
    IF i > Len(validators) THEN [w |-> w, value |-> FALSE]
    ELSE LET r == FuncPermission(validators[i], w, holds)
         IN IF r.value THEN [w |-> r.w, value |-> TRUE]
            ELSE any(validators, i + 1, r.w, holds)

\* FuncPermission.__call__, and the call of a function of the application
FuncPermission(v, w, holds) ==
    CASE v.func = "all" -> all(v.validators, 1, w, holds)
      [] v.func = "any" -> any(v.validators, 1, w, holds)
      [] OTHER -> [w |-> Log(w, Event("predicate", None, 0, v.name, <<>>)),
                   value |-> v.name \in holds]

\* Parser.get_commands
get_commands(d, name) ==
    LET registry == commands[RegistryOf(d)]
    IN IF name \in DOMAIN registry THEN registry[name] ELSE <<>>

\* key in self.command_substitutions, and self.command_substitutions[key]
HasSubstitution(d, key) ==
    \E i \in DOMAIN command_substitutions[RegistryOf(d)] :
        command_substitutions[RegistryOf(d)][i][1] = key

Substitution(d, key) ==
    LET table == command_substitutions[RegistryOf(d)]
    IN table[CHOOSE i \in DOMAIN table : table[i][1] = key][2]

\* Parser.split
split(line) ==
    LET i == Find(line, command_separator)
    IN IF i = 0 THEN <<line, "">>
       ELSE <<SubSeq(line, 1, i - 1), From(line, i + Len(command_separator) - 1)>>

\* pre_command as Parser defines it
pre_command_default(d, caller) == TRUE

\* self.pre_command(caller): Parser.pre_command, or the hook that the
\* application has put in its place
pre_command(d, caller) == d \notin refuses

\* Parser.explain_substitution
explain_substitution(w, short, long) ==
    notify(w, "Instead of typing \"" \o long \o command_separator
              \o "\", you can type " \o short \o ".")

RECURSIVE explain_substitutions(_, _, _, _)
explain_substitutions(w, table, cmd, i) ==
    IF i > Len(table) THEN w
    ELSE explain_substitutions(
            IF \E j \in DOMAIN cmd.names : cmd.names[j] = table[i][2]
            THEN explain_substitution(w, table[i][1], table[i][2]) ELSE w,
            table, cmd, i + 1)

\* self.explain(cmd, caller.connection) in Parser.handle_line: Parser.explain
\* for a Parser; the explain of an Intercept takes the connection only, and
\* the call raises TypeError
explain(d, w, cmd) ==
    IF d \in Intercepts THEN Raise(w, "TypeError")
    ELSE LET w1 == notify(w, Join(cmd.names, " or ") \o ":")
             w2 == explain_substitutions(w1, command_substitutions[RegistryOf(d)], cmd, 1)
         IN notify(notify(w2, cmd.description), cmd.help)

\* Parser.post_command; nothing in gsb calls it
post_command(d, w, caller) == Log(w, Event("post_command", d, 0, "", <<>>))

\* Parser.on_error
on_error(d, w, caller) ==
    notify(Log(w, Event("on_error", d, 0, caller.exception, caller.args)),
           "There was an error with your command.")

----------------------------------------------------------------------------
(* Intercept *)

\* do_abort with the assignment of restore_parser in both branches
do_abort_always_restores(d, w, caller) ==
    LET w1 == Log(w, Event("do_abort", d, 0, "", <<>>))
        w2 == IF w.no_abort[d] # None /\ w.no_abort[d] # ""
              THEN set_parser(send(w1, w.no_abort[d]), w.restore_parser[d])
              ELSE set_parser(send(w1, aborted), w.restore_parser[d])
    IN [w |-> Log(w2, Event("do_abort_return", d, 0, "True", <<>>)),
        handled |-> TRUE]

\* Intercept.do_abort
do_abort(d, w, caller) ==
    LET w1 == Log(w, Event("do_abort", d, 0, "", <<>>))
        w2 == IF w.no_abort[d] # None /\ w.no_abort[d] # ""
              THEN send(w1, w.no_abort[d])
              ELSE set_parser(send(w1, aborted), w.restore_parser[d])
        handled == TRUE
    IN [w |-> Log(w2, Event("do_abort_return", d, 0,
                            IF handled THEN "True" ELSE "False", <<>>)),
        handled |-> handled]

\* Intercept.huh
intercept_huh(d, w, caller) ==
    IF caller.text = abort_command THEN do_abort(d, w, caller)
    ELSE [w |-> w, handled |-> FALSE]

----------------------------------------------------------------------------
(* Menu *)

Digits == "0123456789"

IsDigits(s) == Len(s) > 0 /\ \A i \in 1..Len(s) : Find(Digits, CharAt(s, i)) > 0

RECURSIVE DigitsValue(_)
DigitsValue(s) ==
    IF s = "" THEN 0
    ELSE 10 * DigitsValue(SubSeq(s, 1, Len(s) - 1)) + Find(Digits, CharAt(s, Len(s))) - 1

RECURSIVE Strip(_)
Strip(s) ==
    IF s # "" /\ CharAt(s, 1) = " " THEN Strip(From(s, 1))
    ELSE IF s # "" /\ CharAt(s, Len(s)) = " " THEN Strip(SubSeq(s, 1, Len(s) - 1))
    ELSE s

\* int(text): blanks around an optional sign and decimal digits; ok is
\* FALSE for ValueError
ParseInt(text) ==
    LET t      == Strip(text)
        signed == t # "" /\ CharAt(t, 1) \in {"+", "-"}
        body   == IF signed THEN From(t, 1) ELSE t
    IN IF IsDigits(body)
       THEN [ok |-> TRUE,
             val |-> IF signed /\ CharAt(t, 1) = "-" THEN 0 - DigitsValue(body)
                     ELSE DigitsValue(body)]
       ELSE [ok |-> FALSE, val |-> 0]

\* self.items[num]: the position in items, counted from 1; 0 for IndexError
ItemAt(w, num) ==
    IF num >= 0 /\ num < Len(w.items) THEN num + 1
    ELSE IF num < 0 /\ 0 - num <= Len(w.items) THEN Len(w.items) + num + 1
    ELSE 0

\* Menu._no_matches
no_matches_default(d, w, caller) ==
    LET w1 == notify(Log(w, Event("no_matches", d, 0, "", <<>>)), "Invalid selection.")
    IN IF ~w.persistent THEN set_parser(w1, w.restore_parser[d]) ELSE w1

\* _multiple_matches with the restore of _no_matches
multiple_matches_restores(d, w, caller, matches) ==
    LET w1 == Log(w, Event("multiple_matches", d, 0, "",
                           [k \in DOMAIN matches |-> w.items[matches[k]].text]))
        w2 == notify(send_items(notify(w1, "That matched multiple items:"), matches),
                     menu_prompt)
    IN IF ~w.persistent THEN set_parser(w2, w.restore_parser[d]) ELSE w2

\* Menu._multiple_matches
multiple_matches_default(d, w, caller, matches) ==
    LET w1 == Log(w, Event("multiple_matches", d, 0, "",
                           [k \in DOMAIN matches |-> w.items[matches[k]].text]))
    IN notify(send_items(notify(w1, "That matched multiple items:"), matches),
              menu_prompt)

\* Menu.match with self.items[num] for the number as typed
match_raw_index(d, w, caller) ==
    IF caller.text = "" THEN [w |-> w, item |-> 0]
    ELSE
    LET text == Lower(caller.text)
        int  == ParseInt(text)
        num  == int.val
        found == SelectSeq(AllItems(w), LAMBDA k : StartsWith(Lower(w.items[k].text), text))
    IN IF text = "$"
       THEN IF Len(w.items) = 0 THEN [w |-> Raise(w, "IndexError"), item |-> 0]
            ELSE [w |-> w, item |-> Len(w.items)]
       ELSE IF int.ok /\ ItemAt(w, num) # 0 THEN [w |-> w, item |-> ItemAt(w, num)]
       ELSE IF Len(found) = 0 THEN [w |-> no_matches_default(d, w, caller), item |-> 0]
       ELSE IF Len(found) = 1 THEN [w |-> w, item |-> found[1]]
       ELSE [w |-> multiple_matches_default(d, w, caller, found), item |-> 0]

\* Menu.match with IndexError handled as no match
match_index_error_is_no_match(d, w, caller) ==
    IF caller.text = "" THEN [w |-> w, item |-> 0]
    ELSE
    LET text == Lower(caller.text)
        int  == ParseInt(text)
        num  == IF int.val > 0 THEN int.val - 1 ELSE int.val
        found == SelectSeq(AllItems(w), LAMBDA k : StartsWith(Lower(w.items[k].text), text))
    IN IF text = "$"
       THEN IF Len(w.items) = 0 THEN [w |-> Raise(w, "IndexError"), item |-> 0]
            ELSE [w |-> w, item |-> Len(w.items)]
       ELSE IF int.ok /\ ItemAt(w, num) # 0 THEN [w |-> w, item |-> ItemAt(w, num)]
       ELSE IF int.ok \/ Len(found) = 0
       THEN [w |-> no_matches_default(d, w, caller), item |-> 0]
       ELSE IF Len(found) = 1 THEN [w |-> w, item |-> found[1]]
       ELSE [w |-> multiple_matches_default(d, w, caller, found), item |-> 0]

\* Menu.match: item is the position of the item returned, 0 for None
match(d, w, caller) ==
    IF caller.text = "" THEN [w |-> w, item |-> 0]
    ELSE
    LET text == Lower(caller.text)
        int  == ParseInt(text)
        num  == IF int.val > 0 THEN int.val - 1 ELSE int.val
        found == SelectSeq(AllItems(w), LAMBDA k : StartsWith(Lower(w.items[k].text), text))
    IN IF text = "$"
       THEN IF Len(w.items) = 0 THEN [w |-> Raise(w, "IndexError"), item |-> 0]
            ELSE [w |-> w, item |-> Len(w.items)]
       ELSE IF int.ok /\ ItemAt(w, num) # 0 THEN [w |-> w, item |-> ItemAt(w, num)]
       ELSE IF Len(found) = 0 THEN [w |-> no_matches_default(d, w, caller), item |-> 0]
       ELSE IF Len(found) = 1 THEN [w |-> w, item |-> found[1]]
       ELSE [w |-> multiple_matches_default(d, w, caller, found), item |-> 0]

\* Menu.huh
menu_huh(d, w, caller) ==
    LET a == intercept_huh(d, w, caller)
        m == match(d, w, caller)
    IN IF a.handled THEN a
       ELSE IF m.w.exc # None THEN [w |-> m.w, handled |-> FALSE]
       ELSE IF m.item # 0
       THEN [w |-> Run(Log(set_parser(m.w, w.restore_parser[d]),
                           Event("item", d, m.item, "", <<>>)),
                       w.items[m.item].func),
             handled |-> TRUE]
       ELSE [w |-> IF w.persistent THEN explain_intercept(d, m.w) ELSE m.w,
             handled |-> TRUE]

----------------------------------------------------------------------------
(* Reader *)

\* Server.get_spell_checker: SpellCheckerMenu is None on a server where
\* gsb.ext.spell_checker_menu cannot be imported
get_spell_checker == None

\* Reader.huh
reader_huh(d, w, caller) ==
    LET line == caller.text
        w1 == IF after_line # None
              THEN send(Log(w, Event("after_line", d, 0, "", <<>>)), after_line)
              ELSE w
        a  == intercept_huh(d, w1, caller)
        accept == ~w.multiline \/ line # done_command
        buf == IF accept
               THEN IF w1.buffer # "" /\ line # ""
                    THEN Join(<<w1.buffer, line>>, line_separator)
                    ELSE IF caller.text # "" THEN caller.text ELSE w1.buffer
               ELSE w1.buffer
        w2 == [w1 EXCEPT !.buffer = buf]
        finished == [caller EXCEPT !.text = buf]
    IN IF a.handled THEN a
       ELSE IF line = spell_check_command
       THEN [w |-> IF get_spell_checker # None
                   THEN notify_parser(w1, get_spell_checker)
                   ELSE notify(w1, "Spell checking is not available on this system."),
             handled |-> TRUE]
       ELSE IF ~w.multiline \/ line = done_command
       THEN [w |-> LET w3 == set_parser(w2, w.restore_parser[d])
                   IN IF done # None
                      THEN Run(Log(w3, Event("done", d, 0, finished.text, <<>>)), done)
                      ELSE w3,
             handled |-> TRUE]
       ELSE [w |-> IF before_line # None
                   THEN send(Log(w2, Event("before_line", d, 0, "", <<>>)), before_line)
                   ELSE w2,
             handled |-> FALSE]

----------------------------------------------------------------------------
(* YesOrNo *)

\* YesOrNo.huh
yesno_huh(d, w, caller) ==
    LET a  == intercept_huh(d, w, caller)
        w1 == set_parser(w, w.restore_parser[d])
    IN IF a.handled THEN [w |-> a.w, handled |-> FALSE]
       ELSE IF caller.text = "" THEN [w |-> w, handled |-> FALSE]
       ELSE IF StartsWith(Lower(caller.text), "y")
       THEN [w |-> Run(Log(w1, Event("yes", d, 0, "", <<>>)), yes), handled |-> TRUE]
       ELSE IF w.no # None
       THEN [w |-> Run(Log(w1, Event("no", d, 0, "", <<>>)), w.no), handled |-> TRUE]
       ELSE [w |-> do_abort(d, w1, caller).w, handled |-> TRUE]

----------------------------------------------------------------------------
(* Parser *)

\* Parser.huh
parser_huh(d, w, caller) ==
    [w |-> notify(w, "I don't understand that."), handled |-> TRUE]

\* self.huh(caller), by the class of the dispatcher
huh(d, w, caller) ==
    LET w1 == Log(w, Event("huh", d, 0, caller.text, <<>>))
    IN CASE d = "menu"   -> menu_huh(d, w1, caller)
         [] d = "reader" -> reader_huh(d, w1, caller)
         [] d = "yesno"  -> yesno_huh(d, w1, caller)
         [] OTHER        -> parser_huh(d, w1, caller)

----------------------------------------------------------------------------
(* Parser.handle_line *)

\* the try statement with the count taken after a handler that returned
call_counts_returns(d, cmd, k, st) ==
    LET st1 == [st EXCEPT !.w = Log(@, Event("func", d, k, "", st.caller.args))]
        w1  == Run(st1.w, cmd.func)
        e   == w1.exc
        w2  == [w1 EXCEPT !.exc = None]
    IN IF e = None THEN [st1 EXCEPT !.w = w1, !.broke = TRUE, !.commands = @ + 1]
       ELSE IF e = "DontStopException" THEN [st1 EXCEPT !.w = w2]
       ELSE LET caller == [st1.caller EXCEPT !.exception = e]
            IN [st1 EXCEPT !.caller = caller, !.w = on_error(d, w2, caller)]

\* the try statement around cmd.func(caller): st.broke is the break of the
\* loop, st.commands the number of matched commands
call(d, cmd, k, st) ==
    LET st1 == [st EXCEPT !.commands = @ + 1,
                          !.w = Log(@, Event("func", d, k, "", st.caller.args))]
        w1  == Run(st1.w, cmd.func)
        e   == w1.exc
        w2  == [w1 EXCEPT !.exc = None]
    IN IF e = None THEN [st1 EXCEPT !.w = w1, !.broke = TRUE]
       ELSE IF e = "DontStopException" THEN [st1 EXCEPT !.w = w2]
       ELSE LET caller == [st1.caller EXCEPT !.exception = e]
            IN [st1 EXCEPT !.caller = caller, !.w = on_error(d, w2, caller)]

\* the body of the loop with continue in the place of break after a pattern
\* that does not match
attempt_skips_mismatch(d, cmd, k, st) ==
    LET m   == Match(cmd.args_regexp[1], st.caller.args_str)
        st1 == [st EXCEPT !.w = Log(@, Event("match", d, k, "", <<>>))]
    IN IF cmd.args_regexp = NoPattern
       THEN call(d, cmd, k, [st EXCEPT !.caller.args = <<>>, !.caller.kwargs = <<>>])
       ELSE IF ~m.ok
       THEN [st1 EXCEPT !.w = explain(d, Log(@, Event("explain", d, k, "", <<>>)), cmd)]
       ELSE call(d, cmd, k, [st1 EXCEPT !.caller.args = m.groups,
                                        !.caller.kwargs = m.groupdict])

\* the body of the loop without the reset of the captures for an overload
\* that has no pattern
attempt_keeps_captures(d, cmd, k, st) ==
    LET m   == Match(cmd.args_regexp[1], st.caller.args_str)
        st1 == [st EXCEPT !.w = Log(@, Event("match", d, k, "", <<>>))]
    IN IF cmd.args_regexp = NoPattern
       THEN call(d, cmd, k, st)
       ELSE IF ~m.ok
       THEN [st1 EXCEPT !.w = explain(d, Log(@, Event("explain", d, k, "", <<>>)), cmd),
                        !.broke = TRUE]
       ELSE call(d, cmd, k, [st1 EXCEPT !.caller.args = m.groups,
                                        !.caller.kwargs = m.groupdict])

\* the body of the loop over the overloads, for an overload that is ok_for
\* the caller
attempt(d, cmd, k, st) ==
    LET m   == Match(cmd.args_regexp[1], st.caller.args_str)
        st1 == [st EXCEPT !.w = Log(@, Event("match", d, k, "", <<>>))]
    IN IF cmd.args_regexp = NoPattern
       THEN call(d, cmd, k, [st EXCEPT !.caller.args = <<>>, !.caller.kwargs = <<>>])
       ELSE IF ~m.ok
       THEN [st1 EXCEPT !.w = explain(d, Log(@, Event("explain", d, k, "", <<>>)), cmd),
                        !.broke = TRUE]
       ELSE call(d, cmd, k, [st1 EXCEPT !.caller.args = m.groups,
                                        !.caller.kwargs = m.groupdict])

\* for cmd in self.get_commands(command), from overload k on
RECURSIVE overloads(_, _, _, _)
overloads(d, cmds, k, st) ==
    IF k > Len(cmds) \/ st.broke \/ st.w.exc # None THEN st
    ELSE LET st1 == [st EXCEPT !.w = Log(@, Event("ok_for", d, k, "", <<>>))]
         IN overloads(d, cmds, k + 1,
                      IF ok_for(cmds[k], st.caller) THEN attempt(d, cmds[k], k, st1)
                      ELSE st1)

\* the rewriting without the separator between the full name and the rest
substitute_glued(d, line) ==
    IF line # "" /\ HasSubstitution(d, CharAt(line, 1))
    THEN Substitution(d, CharAt(line, 1)) \o From(line, 1)
    ELSE line

\* the rewriting of the line by the substitution table
substitute(d, line) ==
    IF line # "" /\ HasSubstitution(d, CharAt(line, 1))
    THEN Substitution(d, CharAt(line, 1)) \o command_separator \o From(line, 1)
    ELSE line

\* handle_line with huh called whenever no command was matched, also after
\* a break of the loop
handle_line_huh_after_break(d, w, line) ==
    LET text   == substitute(d, line)
        parts  == split(text)
        caller == [Caller(text) EXCEPT !.command = parts[1], !.args_str = parts[2]]
        st     == overloads(d, get_commands(d, parts[1]), 1,
                            [w |-> w, caller |-> caller, commands |-> 0, broke |-> FALSE])
        w1     == IF st.w.exc = None /\ st.commands = 0
                  THEN huh(d, st.w, st.caller).w
                  ELSE st.w
    IN [w |-> w1,
        ret |-> IF w1.exc = None /\ st.commands > 0 THEN <<st.commands>> ELSE <<>>]

\* Parser.handle_line: the state after it and what it returns, <<>> for None
handle_line(d, w, line) ==
    LET text   == substitute(d, line)
        parts  == split(text)
        caller == [Caller(text) EXCEPT !.command = parts[1], !.args_str = parts[2]]
        st     == overloads(d, get_commands(d, parts[1]), 1,
                            [w |-> w, caller |-> caller, commands |-> 0, broke |-> FALSE])
        w1     == IF ~st.broke /\ st.w.exc = None /\ st.commands = 0
                  THEN huh(d, st.w, st.caller).w
                  ELSE st.w
    IN IF ~pre_command(d, Caller(text)) THEN [w |-> w, ret |-> <<>>]
       ELSE [w |-> w1,
             ret |-> IF w1.exc = None /\ st.commands > 0 THEN <<st.commands>> ELSE <<>>]

----------------------------------------------------------------------------
(* The operations *)

\* The old_parser argument of the call of on_attach that made override p the
\* dispatcher of the connection, None when p is no override: the last
\* on_attach in tr, or the one before the operation when tr has none.
LastAttach(tr, p, before) ==
    LET hits == {n \in 1..Len(tr) : tr[n].ev = "on_attach"}
    IN IF p \notin Intercepts THEN None
       ELSE IF hits = {} THEN before
       ELSE tr[CHOOSE n \in hits : \A m \in hits : m <= n].o

\* the dispatchers that the connection can still reach: its dispatcher and
\* what the restore_parser links lead to from it
RECURSIVE Reachable(_, _, _)
Reachable(from, links, n) ==
    IF n = 0 THEN from
    ELSE Reachable(from \cup {links[i] : i \in from \cap Intercepts}, links, n - 1)

Live(p, links) == Reachable({p}, links, Cardinality(Intercepts))

\* An override that the connection cannot reach any more is discarded by the
\* application; the next use of its kind is a new instance, with the
\* attributes that Intercept.__init__ and the class give it.
Discard(w) ==
    LET live == Live(w.parser, w.restore_parser)
    IN /\ restore_parser' = [i \in Intercepts |->
                                IF i \in live THEN w.restore_parser[i] ELSE None]
       /\ no_abort' = [i \in Intercepts |-> IF i \in live THEN w.no_abort[i] ELSE None]
       /\ persistent' = IF "menu" \in live THEN w.persistent ELSE FALSE
       /\ items' = IF "menu" \in live THEN w.items ELSE Fruit
       /\ multiline' = IF "reader" \in live THEN w.multiline ELSE FALSE
       /\ no' = IF "yesno" \in live THEN w.no ELSE None
       /\ buffer' = IF "reader" \in live THEN w.buffer ELSE ""

\* the state after an operation that ran on w
Finish(name, arg, w, r) ==
    /\ parser' = w.parser
    /\ Discard(w)
    /\ sent' = w.sent
    /\ trace' = w.trace
    /\ exc' = w.exc
    /\ ret' = r
    /\ op' = [name |-> name, d |-> parser, arg |-> arg, over |-> attached_over,
              restore_parser |-> IF parser \in Intercepts
                                 THEN w.restore_parser[parser] ELSE None,
              no_abort |-> IF parser \in Intercepts THEN w.no_abort[parser] ELSE None,
              items |-> IF parser = "menu" THEN items ELSE <<>>,
              persistent |-> parser = "menu" /\ persistent,
              multiline |-> parser = "reader" /\ multiline,
              buffer |-> IF parser = "reader" THEN buffer ELSE "",
              no |-> IF parser = "yesno" THEN no ELSE None]
    /\ attached_over' = LastAttach(w.trace, w.parser, attached_over)

\* an operation on the registries: it calls no hook and sends nothing
Quiet(name, d, arg) ==
    /\ sent' = <<>>
    /\ trace' = <<>>
    /\ exc' = None
    /\ ret' = <<>>
    /\ op' = [name |-> name, d |-> d, arg |-> arg, over |-> attached_over,
              restore_parser |-> None, no_abort |-> None, items |-> <<>>,
              persistent |-> FALSE, multiline |-> FALSE, buffer |-> "",
              no |-> None]

Init ==
    /\ parser = default_parser
    /\ commands = [r \in Registries |-> <<>>]
    /\ command_substitutions = [r \in Registries |-> <<>>]
    /\ restore_parser = [i \in Intercepts |-> None]
    /\ no_abort = [i \in Intercepts |-> None]
    /\ persistent = FALSE
    /\ items = Fruit
    /\ multiline = FALSE
    /\ no = None
    /\ buffer = ""
    /\ refuses = {}
    /\ attached_over = None
    /\ op = [name |-> "connectionMade", d |-> default_parser, arg |-> "", over |-> None,
             restore_parser |-> None, no_abort |-> None, items |-> <<>>,
             persistent |-> FALSE, multiline |-> FALSE, buffer |-> "",
             no |-> None]
    /\ sent = <<>>
    /\ trace = <<>>
    /\ ret = <<>>
    /\ exc = None

\* Protocol.lineReceived
lineReceived(line) ==
    /\ (parser = "reader" /\ line # abort_command /\ (multiline => line # done_command))
          => Len(buffer) <= MaxBuffer
    /\ LET r == handle_line(parser, World, line)
       IN Finish("lineReceived", line, r.w, r.ret)
    /\ UNCHANGED <<commands, command_substitutions, refuses>>

\* connection.parser = value, by the application outside of a line
assign_parser(value) ==
    /\ Finish("parser", value, set_parser(World, value), <<>>)
    /\ UNCHANGED <<commands, command_substitutions, refuses>>

\* the Command objects of a registry
Objects(registry) ==
    UNION {{registry[name][i] : i \in DOMAIN registry[name]} : name \in DOMAIN registry}

\* the loop over c.names with lst.insert(0, c) in the place of lst.append(c)
RECURSIVE insert_in_front(_, _, _)
insert_in_front(registry, c, i) ==
    IF i > Len(c.names) THEN registry
    ELSE LET name == c.names[i]
             lst  == IF name \in DOMAIN registry THEN registry[name] ELSE <<>>
         IN insert_in_front((name :> <<c>> \o lst) @@ registry, c, i + 1)

\* the loop of Parser.command.inner over c.names
RECURSIVE insert(_, _, _)
insert(registry, c, i) ==
    IF i > Len(c.names) THEN registry
    ELSE LET name == c.names[i]
             lst  == IF name \in DOMAIN registry THEN registry[name] ELSE <<>>
         IN insert((name :> Append(lst, c)) @@ registry, c, i + 1)

\* Parser.command on dispatcher d: inner makes a new object of
\* command_class, which id tells from the objects that were made before it,
\* and appends it to the list of each of its names
command(d, c) ==
    /\ \A i \in DOMAIN c.names : Len(get_commands(d, c.names[i])) < MaxOverloads
    /\ LET registry == commands[RegistryOf(d)]
           object   == [c EXCEPT !.id = Cardinality(Objects(registry)) + 1]
       IN commands' = [commands EXCEPT ![RegistryOf(d)] = insert(registry, object, 1)]
    /\ Quiet("command", d, c.names[1])
    /\ UNCHANGED <<parser, command_substitutions, restore_parser, no_abort,
                   persistent, items, multiline, no, buffer, refuses, attached_over>>

\* what iterating a str gives: its characters, one by one
Characters(s) == [i \in 1..Len(s) |-> CharAt(s, i)]

\* Parser.command(names=s) on dispatcher d with a str s that is not empty:
\* iter(s) raises nothing, so Command.__init__ keeps the str as names, and
\* the loop of inner over c.names takes its characters one by one. The
\* Command has no pattern, so that Parser.explain, which tests
\* value in command.names, is never called for it.
command_str(d, s, func) ==
    /\ \A i \in 1..Len(s) : Len(get_commands(d, CharAt(s, i))) < MaxOverloads
    /\ LET registry == commands[RegistryOf(d)]
           c        == Command(Characters(s), func, NoPattern, TRUE)
           object   == [c EXCEPT !.id = Cardinality(Objects(registry)) + 1]
       IN commands' = [commands EXCEPT ![RegistryOf(d)] = insert(registry, object, 1)]
    /\ Quiet("command_str", d, s)
    /\ UNCHANGED <<parser, command_substitutions, restore_parser, no_abort,
                   persistent, items, multiline, no, buffer, refuses, attached_over>>

\* d.command_substitutions[key] = name, for a key that is not in the table
substitution(d, key, name) ==
    /\ ~HasSubstitution(d, key)
    /\ Len(command_substitutions[RegistryOf(d)]) < MaxSubstitutions
    /\ command_substitutions' =
          [command_substitutions EXCEPT ![RegistryOf(d)] = Append(@, <<key, name>>)]
    /\ Quiet("substitution", d, key)
    /\ UNCHANGED <<parser, commands, restore_parser, no_abort,
                   persistent, items, multiline, no, buffer, refuses, attached_over>>

\* permission(caller), the call that Command.ok_for makes, for the
\* permission and the Caller that the state begins with
call_permission ==
    /\ op.name = "permission"
    /\ LET r == FuncPermission(op.arg.permission, World, op.arg.holds)
       IN Finish("ok_for", op.arg, r.w, <<r.value>>)
    /\ UNCHANGED <<commands, command_substitutions, refuses>>

\* d.pre_command = hook, where hook returns verdict for every Caller
set_pre_command(d, verdict) ==
    /\ (d \in refuses) = verdict
    /\ refuses' = IF verdict THEN refuses \ {d} ELSE refuses \cup {d}
    /\ Quiet("pre_command", d, IF verdict THEN "True" ELSE "False")
    /\ UNCHANGED <<parser, commands, command_substitutions, restore_parser, no_abort,
                   persistent, items, multiline, no, buffer, attached_over>>


\* instance = Menu(items=its, labels=labels, persistent=p), after which
\* the application sets instance.restore_parser and instance.no_abort and
\* hands the instance to connection.notify
notify_Menu(its, p, restore, suppress) ==
    /\ "menu" \notin Live(parser, restore_parser)
    /\ LET w == [World EXCEPT !.persistent = p, !.items = its,
                              !.restore_parser["menu"] = restore,
                              !.no_abort["menu"] = suppress]
       IN Finish("notify", "menu", notify_parser(w, "menu"), <<>>)
    /\ UNCHANGED <<commands, command_substitutions, refuses>>

\* self.__attrs_post_init__() in Menu.item: Menu and its bases define no
\* such method
attrs_post_init(w) == Raise(w, "AttributeError")

\* Menu.item(name)(func) on the Menu that the connection has
item(name, func) ==
    /\ "menu" \in Live(parser, restore_parser)
    /\ Len(items) < MaxItems
    /\ LET i == [text |-> name, func |-> func, index |-> 0]
           w == [World EXCEPT !.items = Append(@, i)]
       IN Finish("item", name, attrs_post_init(w), <<>>)
    /\ UNCHANGED <<commands, command_substitutions, refuses>>

\* the same with Reader(multiline=m, before_line=before_line,
\* after_line=after_line, done=done)
notify_Reader(m, restore, suppress) ==
    /\ "reader" \notin Live(parser, restore_parser)
    /\ LET w == [World EXCEPT !.multiline = m, !.buffer = "",
                              !.restore_parser["reader"] = restore,
                              !.no_abort["reader"] = suppress]
       IN Finish("notify", "reader", notify_parser(w, "reader"), <<>>)
    /\ UNCHANGED <<commands, command_substitutions, refuses>>

\* the same with YesOrNo(question, yes, no=f)
notify_YesOrNo(f, restore, suppress) ==
    /\ "yesno" \notin Live(parser, restore_parser)
    /\ LET w == [World EXCEPT !.no = f,
                              !.restore_parser["yesno"] = restore,
                              !.no_abort["yesno"] = suppress]
       IN Finish("notify", "yesno", notify_parser(w, "yesno"), <<>>)
    /\ UNCHANGED <<commands, command_substitutions, refuses>>

----------------------------------------------------------------------------
(* The session: the overrides at work *)

Lines == {"@abort", "yes", "1", "ban", "."}

\* the command registered in the session
AbortCommand == Command(<<"@abort">>, "return", NoPattern, TRUE)

\* What the application gives an override before it hands it to notify:
\* <<flag, restore_parser, no_abort>>, where flag is persistent of a Menu,
\* multiline of a Reader, and whether a YesOrNo has a no callback.
Settings ==
    { <<FALSE, None, None>>,
      <<TRUE, None, None>>,
      <<FALSE, "alt", None>>,
      <<FALSE, "menu", None>>,
      <<FALSE, None, "You cannot abort.">>,
      <<TRUE, "alt", "You cannot abort.">> }

Next ==
    \/ \E line \in Lines : lineReceived(line)
    \/ \E value \in Parsers \cup {None} : assign_parser(value)
    \/ \E a \in Settings : notify_Menu(Fruit, a[1], a[2], a[3])
    \/ \E a \in Settings : notify_Reader(a[1], a[2], a[3])
    \/ \E a \in Settings : notify_YesOrNo(IF a[1] THEN "return" ELSE None, a[2], a[3])
    \/ get_commands("base", "@abort") = <<>> /\ command("base", AbortCommand)

Spec == Init /\ [][Next]_vars

----------------------------------------------------------------------------
(* The dispatch: overloads of one name on the baseline dispatcher *)

\* the regular expression n(.*)
NorthPattern == Pattern("n", TRUE)

DispatchCommands ==
    { Command(<<"look">>, f, p, a) :
        f \in {"return", "raise", "dont_stop", "menu"},
        p \in {NoPattern, NorthPattern},
        a \in BOOLEAN }

DispatchLines == {"look", "look north", "!north", "go"}

\* what the key ! stands for: a command name, or a name with an argument
FullNames == {"look", "look n"}

NextDispatch ==
    \/ \E line \in DispatchLines : lineReceived(line)
    \/ \E c \in DispatchCommands : command("base", c)
    \/ \E name \in FullNames : substitution("base", "!", name)

SpecDispatch == Init /\ [][NextDispatch]_vars

----------------------------------------------------------------------------
(* The menu: selection by index and by label *)

\* a list of MenuItems whose labels begin with digits
Numbered == << [text |-> "2 Fish",  func |-> "return", index |-> 1],
               [text |-> "2 Chips", func |-> "return", index |-> 2],
               [text |-> "1 Pie",   func |-> "return", index |-> 3],
               [text |-> "7 Up",    func |-> "return", index |-> 4] >>

ItemLists == {<<>>, Fruit, Numbered}

MenuLines == {"", "$", "0", "1", "2", "3", "-1", "-3", "-5", "7", " 2",
              "a", "BAN", "zz", "@abort"}

NextMenu ==
    \/ \E line \in MenuLines : lineReceived(line)
    \/ \E value \in Parsers : assign_parser(value)
    \/ \E its \in ItemLists, p \in BOOLEAN : notify_Menu(its, p, None, None)

SpecMenu == Init /\ [][NextMenu]_vars

----------------------------------------------------------------------------
(* The prompts: a Reader or a YesOrNo receives lines *)

PromptLines == {"", "a", "b", ".", ".spell", "@abort", "Yes"}

NextPrompt ==
    \/ \E line \in PromptLines : lineReceived(line)
    \/ \E value \in Parsers : assign_parser(value)
    \/ \E m \in BOOLEAN, s \in {None, "You cannot abort."} : notify_Reader(m, None, s)
    \/ \E f \in {None, "return", "raise"}, s \in {None, "You cannot abort."} :
          notify_YesOrNo(f, None, s)

SpecPrompt == Init /\ [][NextPrompt]_vars

----------------------------------------------------------------------------
(* The permissions: and_ and or_ of functions and of each other *)

Functions == {"p", "q"}

\* the permissions that are given to and_ and or_
Validators ==
    LET F == {predicate(n) : n \in Functions}
        Lists == {<<>>} \cup {<<a>> : a \in F} \cup {<<a, b>> : a \in F, b \in F}
    IN F \cup {and_(l) : l \in Lists} \cup {or_(l) : l \in Lists}

Permissions ==
    LET Lists == UNION {[1..n -> Validators] : n \in 0..MaxValidators}
    IN {and_(l) : l \in Lists} \cup {or_(l) : l \in Lists}

\* a permission and a Caller, before the permission is called
InitPermission ==
    /\ parser = default_parser
    /\ commands = [r \in Registries |-> <<>>]
    /\ command_substitutions = [r \in Registries |-> <<>>]
    /\ restore_parser = [i \in Intercepts |-> None]
    /\ no_abort = [i \in Intercepts |-> None]
    /\ persistent = FALSE
    /\ items = Fruit
    /\ multiline = FALSE
    /\ no = None
    /\ buffer = ""
    /\ refuses = {}
    /\ attached_over = None
    /\ \E permission \in Permissions, holds \in SUBSET Functions :
          op = [name |-> "permission", d |-> default_parser,
                arg |-> [permission |-> permission, holds |-> holds], over |-> None,
                restore_parser |-> None, no_abort |-> None, items |-> <<>>,
                persistent |-> FALSE, multiline |-> FALSE, buffer |-> "",
                no |-> None]
    /\ sent = <<>>
    /\ trace = <<>>
    /\ ret = <<>>
    /\ exc = None

NextPermission == call_permission

SpecPermission == InitPermission /\ [][NextPermission]_vars

----------------------------------------------------------------------------
(* The registry: Commands with several names on the baseline dispatcher *)

RegistryCommands ==
    { Command(names, f, NoPattern, TRUE) :
        names \in {<<"look">>, <<"l">>, <<"look", "l">>},
        f \in {"return", "raise"} }

RegistryLines == {"look", "l"}

NextRegistry ==
    \/ \E line \in RegistryLines : lineReceived(line)
    \/ \E c \in RegistryCommands : command("base", c)

SpecRegistry == Init /\ [][NextRegistry]_vars

----------------------------------------------------------------------------
(* The items: a Menu that items are added to *)

ItemLines == {"1", "4", "$", "c", "zz"}

NextItem ==
    \/ \E line \in ItemLines : lineReceived(line)
    \/ \E its \in {<<>>, Fruit}, p \in BOOLEAN : notify_Menu(its, p, None, None)
    \/ \E name \in {"Cherry", "Date"} : item(name, "return")

SpecItem == Init /\ [][NextItem]_vars

----------------------------------------------------------------------------
(* The names: Commands registered with a str as names *)

NameStrings == {"go", "n"}

NameLines == {"go", "g", "o", "n", "go n"}

NextNames ==
    \/ \E line \in NameLines : lineReceived(line)
    \/ \E s \in NameStrings, f \in {"return", "raise"} : command_str("base", s, f)

SpecNames == Init /\ [][NextNames]_vars

----------------------------------------------------------------------------
(* The hooks: a pre_command of the application on the baseline dispatcher *)

HookCommands ==
    { Command(<<"look">>, f, p, a) :
        f \in {"return", "raise", "menu"},
        p \in {NoPattern, NorthPattern},
        a \in BOOLEAN }

HookLines == {"look", "look north", "go"}

NextHook ==
    \/ \E line \in HookLines : lineReceived(line)
    \/ \E c \in HookCommands : command("base", c)
    \/ \E verdict \in BOOLEAN : set_pre_command("base", verdict)

SpecHook == Init /\ [][NextHook]_vars

----------------------------------------------------------------------------
(* The claims.  Each is about the last operation: op, sent, trace, ret, exc *)

IsLine == op.name = "lineReceived"

\* the places of the calls of hook or handler ev in trace
Calls(ev) == {n \in DOMAIN trace : trace[n].ev = ev}

\* the overloads that the line of the last operation was dispatched to, and
\* its argument string
LineParts == split(substitute(op.d, op.arg))

Overloads == get_commands(op.d, LineParts[1])

\* C1: an override that finishes makes the dispatcher it was attached over
\* current again, whatever that dispatcher is.  Stated for an override whose
\* restore_parser the application has not set: the first assignment the
\* override makes in handling a line attaches the dispatcher that was
\* current when the override was attached.
C1_RestoresPredecessor ==
    (IsLine /\ op.d \in Intercepts /\ op.restore_parser = None)
    => \A n \in Calls("on_detach") :
          (trace[n].d = op.d /\ \A m \in Calls("on_detach") : n <= m)
          => trace[n + 1].ev = "on_attach" /\ trace[n + 1].d = op.over

\* C10: the dispatcher of the connection is never null; an assignment of
\* null calls on_detach of the old dispatcher once and then on_attach of the
\* baseline dispatcher once, and the baseline dispatcher is current after it.
C10_NeverNull ==
    /\ parser \in Dispatchers
    /\ \A n \in Calls("on_detach") :
          trace[n].o = None
          => /\ n + 1 \in Calls("on_attach")
             /\ trace[n + 1].d = default_parser
             /\ trace[n + 1].o = trace[n].d
    /\ (op.name = "parser" /\ op.arg = None)
       => /\ parser = default_parser
          /\ Cardinality(Calls("on_detach")) = 1
          /\ Cardinality(Calls("on_attach")) = 1
          /\ trace[1].ev = "on_detach" /\ trace[1].d = op.d

\* null is assigned to a connection whose dispatcher is an override
C10_Witness ==
    op.name = "parser" /\ op.arg = None /\ op.d \in Intercepts /\ parser = default_parser

\* C8: a line equal to the abort token of an override runs the abort flow,
\* whatever the registry holds: no command handler runs for that line.
C8_AbortTokenFirst ==
    (IsLine /\ op.d \in Intercepts /\ op.arg = abort_command)
    => /\ Calls("func") = {}
       /\ Cardinality(Calls("do_abort")) = 1

\* the abort flow is suppressed when no_abort is set on the override
Suppressed == op.no_abort # None /\ op.no_abort # ""

\* what an assignment of the restore_parser of the override makes current
RestoreTarget ==
    IF op.restore_parser = None THEN default_parser ELSE op.restore_parser

C11_DetachThenAttach ==
    /\ \A n \in Calls("on_detach") :
          trace[n].o # None
          => /\ trace[n].p = trace[n].d
             /\ n + 1 \in Calls("on_attach")
             /\ trace[n + 1].d = trace[n].o
             /\ trace[n + 1].o = trace[n].d
             /\ trace[n + 1].p = trace[n].o
    /\ \A n \in Calls("on_attach") : n - 1 \in Calls("on_detach")
    /\ (op.name \in {"parser", "notify"} /\ op.arg # None)
       => /\ Cardinality(Calls("on_detach")) = 1
          /\ Cardinality(Calls("on_attach")) = 1
          /\ trace[1].ev = "on_detach" /\ trace[1].d = op.d /\ trace[1].o = op.arg
          /\ parser = op.arg

\* a Menu is handed to a connection whose dispatcher is a Parser of the
\* application
C11_Witness ==
    /\ op.name = "notify" /\ op.arg = "menu" /\ op.d = "alt"
    /\ parser = "menu"
    /\ Len(trace) = 2

----------------------------------------------------------------------------
(* The claims about the loop over the overloads *)

Allowed(k) == Overloads[k].allowed

HasPattern(k) == Overloads[k].args_regexp # NoPattern

Matches(k) == HasPattern(k) => Match(Overloads[k].args_regexp[1], LineParts[2]).ok

Captures(k) ==
    IF HasPattern(k) THEN Match(Overloads[k].args_regexp[1], LineParts[2]).groups
    ELSE <<>>

Permitted == {k \in DOMAIN Overloads : Allowed(k)}

Matching == {k \in Permitted : Matches(k)}

Least(S) == CHOOSE k \in S : \A j \in S : k <= j

\* the overload whose handler was called first
FirstCalled == trace[Least(Calls("func"))].k

\* the lines of the usage explanation of overload k that every explanation has
UsageSent(k, from) ==
    /\ Len(sent) >= from + 3
    /\ sent[from + 1] = Join(Overloads[k].names, " or ") \o ":"
    /\ sent[Len(sent) - 1] = Overloads[k].description
    /\ sent[Len(sent)] = Overloads[k].help

\* C2: when the handler of overload k raises an exception that is not the
\* continue signal, no later overload has its permission checked, its
\* pattern matched or its handler called.
C2_FaultStopsDispatch ==
    IsLine =>
       \A n \in Calls("on_error") :
          \A m \in DOMAIN trace :
             m > n => trace[m].ev \notin {"ok_for", "match", "func"}

\* C3: when overload k passes its permission check and its pattern does not
\* match, the usage explanation of overload k is sent, no later overload is
\* attempted and huh is not called.
C3_MismatchExplains ==
    IsLine =>
       \A n \in Calls("explain") :
          /\ UsageSent(trace[n].k, trace[n].n)
          /\ n = Len(trace)
          /\ Calls("huh") = {}

\* C4: when the permission predicate of overload k rejects the Caller,
\* nothing is sent for overload k, neither its pattern nor its handler is
\* used, and overload k+1 is attempted next.
C4_DeniedIsSkipped ==
    IsLine =>
       \A n \in Calls("ok_for") :
          ~Allowed(trace[n].k)
          => /\ \A m \in Calls("match") \cup Calls("explain") \cup Calls("func") :
                   trace[m].k # trace[n].k
             /\ n < Len(trace) => trace[n + 1].n = trace[n].n
             /\ IF trace[n].k < Len(Overloads)
                THEN n + 1 \in Calls("ok_for") /\ trace[n + 1].k = trace[n].k + 1
                ELSE n < Len(trace) => trace[n + 1].ev = "huh"

\* the first overload is denied and the handler of the second is called
C4_Witness ==
    /\ IsLine /\ Len(Overloads) >= 2
    /\ ~Allowed(1)
    /\ \E n \in Calls("func") : trace[n].k = 2

\* C5 as claimed: the handler called for a line is that of the first
\* overload whose permission passes and whose pattern matches or is absent.
C5_FirstMatchingInvoked ==
    (IsLine /\ Matching # {})
    => Calls("func") # {} /\ FirstCalled = Least(Matching)

\* C5 as amended: the overloads are tried in the order of registration, and
\* the first overload whose permission passes decides: when its pattern
\* matches or is absent its handler is the first called for the line, and
\* when its pattern does not match no handler is called for the line.
C5_FirstPermittedDecides ==
    IsLine =>
       /\ \A n \in Calls("ok_for") :
             trace[n].k = Cardinality({m \in Calls("ok_for") : m <= n})
       /\ IF Permitted # {} /\ Matches(Least(Permitted))
          THEN Calls("func") # {} /\ FirstCalled = Least(Permitted)
          ELSE Calls("func") = {}

\* the first overload passes its permission and does not match, the second
\* would match, and no handler is called
C5_Witness ==
    /\ IsLine /\ Len(Overloads) >= 2
    /\ Allowed(1) /\ ~Matches(1)
    /\ 2 \in Matching
    /\ Calls("explain") # {}
    /\ Calls("func") = {}

\* C6: when the handler of overload k raises the continue signal, on_error
\* is not called for it and overload k+1 is attempted next: its permission
\* is checked, its pattern matched, and its handler sees the captures of
\* its own match.
C6_ContinueSignal ==
    IsLine =>
       /\ \A n \in Calls("func") :
             /\ trace[n].a = Captures(trace[n].k)
             /\ Overloads[trace[n].k].func = "dont_stop"
                => IF trace[n].k < Len(Overloads)
                   THEN n + 1 \in Calls("ok_for") /\ trace[n + 1].k = trace[n].k + 1
                   ELSE n = Len(trace)
       /\ \A n \in Calls("ok_for") :
             (Allowed(trace[n].k) /\ HasPattern(trace[n].k))
             => n + 1 \in Calls("match") /\ trace[n + 1].k = trace[n].k
       /\ \A n \in Calls("on_error") :
             n - 1 \in Calls("func") /\ Overloads[trace[n - 1].k].func = "raise"

\* the first overload matched with a capture and raised the continue
\* signal; the second has no pattern and its handler saw no capture
C6_Witness ==
    /\ IsLine /\ Len(Overloads) >= 2
    /\ Overloads[1].func = "dont_stop" /\ Allowed(1) /\ HasPattern(1)
    /\ ~HasPattern(2)
    /\ \E n \in Calls("func") : trace[n].k = 1 /\ trace[n].a = <<"orth">>
    /\ \E n \in Calls("func") : trace[n].k = 2 /\ trace[n].a = <<>>

\* C7: huh is called once when no Command is registered under the name of
\* the line or every overload was skipped by its permission predicate, and
\* not at all when a pattern was matched or a handler called.
C7_Huh ==
    IsLine =>
       /\ Cardinality(Calls("huh")) = IF Permitted = {} THEN 1 ELSE 0
       /\ Calls("match") \cup Calls("func") # {} => Calls("huh") = {}

\* two overloads are registered under the name, both are denied, and huh
\* is called
C7_Witness ==
    /\ IsLine /\ Len(Overloads) >= 2
    /\ Permitted = {}
    /\ Cardinality(Calls("ok_for")) = Len(Overloads)
    /\ Cardinality(Calls("huh")) = 1

----------------------------------------------------------------------------
(* The claims about faults and registries *)

\* C12: a fault of a command handler stays in its line: the exception is
\* attached to the Caller that on_error gets, no exception leaves
\* handle_line, and the dispatcher of the connection after the line is the
\* dispatcher before it.
C12_FaultIsIsolated ==
    IsLine =>
       \A n \in Calls("on_error") :
          /\ trace[n].o = "Exception"
          /\ exc = None
          /\ parser = op.d

\* C13: no exception leaves handle_line, whatever the dispatcher and the
\* line are.
C13_NothingEscapes == IsLine => exc = None

\* C14: a line sent to a dispatcher other than the default parser, on which
\* alone Commands are registered, resolves none of them: no permission is
\* checked and no handler called.
C14_OwnRegistries ==
    (IsLine /\ op.d # default_parser) => Calls("ok_for") \cup Calls("func") = {}

----------------------------------------------------------------------------
(* The claims about the Menu *)

\* a line that is not the abort token reaches a Menu
MenuLine == IsLine /\ op.d = "menu" /\ op.arg # abort_command

\* the line read as an integer
Typed == ParseInt(op.arg)

\* the position, from 1, of the item that integer n stands for
IndexOf(n) ==
    IF n >= 1 THEN n ELSE IF n = 0 THEN 1 ELSE Len(op.items) + n + 1

ValidIndex(n) == IndexOf(n) \in DOMAIN op.items

\* the items whose label the line is a prefix of, whatever the case
LabelMatches ==
    SelectSeq([k \in DOMAIN op.items |-> k],
              LAMBDA k : StartsWith(Lower(op.items[k].text), Lower(op.arg)))

\* the items whose callback was called
Picked == {trace[n].k : n \in Calls("item")}

\* the callback of item k, and no other, was called once
PickedOnly(k) == Picked = {k} /\ Cardinality(Calls("item")) = 1

\* C15: on a menu of m >= 1 items, "$" selects item m, an integer n with
\* 1 <= n <= m selects item n, 0 selects item 1 and an integer n with
\* -m <= n < 0 selects item m + n + 1.
C15_IntegerSelection ==
    (MenuLine /\ Len(op.items) >= 1)
    => /\ op.arg = "$" => PickedOnly(Len(op.items))
       /\ (Typed.ok /\ ValidIndex(Typed.val)) => PickedOnly(IndexOf(Typed.val))

\* the line -1 selected the last of three items
C15_Witness ==
    /\ MenuLine /\ op.arg = "-1" /\ Len(op.items) = 3
    /\ PickedOnly(3)

\* C16 as claimed: an integer that is no valid index takes the no-match
\* path and selects no item.
C16_OutOfRangeIsNoMatch ==
    (MenuLine /\ Typed.ok /\ ~ValidIndex(Typed.val))
    => Calls("no_matches") # {} /\ Calls("item") = {}

\* C16 as amended: an integer that is no valid index is matched as text
\* against the labels: the no-match hook is called when it is a prefix of
\* no label, the item is selected when it is a prefix of one label, and the
\* multiple-match hook is called when it is a prefix of several.
C16_OutOfRangeIsText ==
    (MenuLine /\ Typed.ok /\ ~ValidIndex(Typed.val))
    => CASE Len(LabelMatches) = 0 ->
               /\ Cardinality(Calls("no_matches")) = 1
               /\ Calls("item") \cup Calls("multiple_matches") = {}
         [] Len(LabelMatches) = 1 ->
               /\ PickedOnly(LabelMatches[1])
               /\ Calls("no_matches") \cup Calls("multiple_matches") = {}
         [] OTHER ->
               /\ Cardinality(Calls("multiple_matches")) = 1
               /\ Calls("item") \cup Calls("no_matches") = {}

\* 7 is no index of a menu of four items and is a prefix of one label,
\* whose item is selected
C16_Witness ==
    /\ MenuLine /\ op.arg = "7" /\ Len(op.items) = 4
    /\ Len(LabelMatches) = 1
    /\ PickedOnly(4)

\* the line selects by "$" or by a valid index
SelectsByIndex == op.arg = "$" \/ (Typed.ok /\ ValidIndex(Typed.val))

\* C17: when the line is a prefix of the label of exactly one item, the
\* dispatcher that was current before the Menu was attached is made current
\* again, then the callback of that item is called, once, and the
\* dispatcher that the callback installs, if any, is current after the line.
C17_RestoreThenCallback ==
    (MenuLine /\ Len(LabelMatches) = 1)
    => /\ PickedOnly(LabelMatches[1])
       /\ \A n \in Calls("item") :
             /\ n >= 3
             /\ trace[n - 2].ev = "on_detach" /\ trace[n - 2].d = "menu"
             /\ trace[n - 1].ev = "on_attach" /\ trace[n - 1].d = op.over
             /\ trace[n].p = op.over
       /\ parser = IF op.items[LabelMatches[1]].func \in Dispatchers
                   THEN op.items[LabelMatches[1]].func
                   ELSE op.over

\* the labels of the items at the positions ks
Labels(ks) == [i \in DOMAIN ks |-> op.items[ks[i]].text]

\* the multiple-match hook is called once with the items the line is a
\* prefix of, no callback is called and the Menu stays current
MultipleMatchesHandled ==
    /\ Cardinality(Calls("multiple_matches")) = 1
    /\ \A n \in Calls("multiple_matches") : trace[n].a = Labels(LabelMatches)
    /\ Calls("item") = {}
    /\ Calls("on_detach") = {}
    /\ parser = "menu"

\* C18 as claimed: whenever the line is a prefix of the labels of two or
\* more items, the multiple-match hook is called with these items in the
\* order of display, no callback is called and the Menu stays current.
C18_PrefixOfSeveral ==
    (MenuLine /\ Len(LabelMatches) >= 2) => MultipleMatchesHandled

\* C18 as amended: the same for a line that is not empty and does not
\* select by "$" or by a valid index, which come first.
C18_MultipleMatches ==
    (MenuLine /\ Len(LabelMatches) >= 2 /\ op.arg # "" /\ ~SelectsByIndex)
    => MultipleMatchesHandled

\* the line a on a menu that is not persistent: Apple and Apricot
C18_Witness ==
    /\ MenuLine /\ op.arg = "a" /\ ~op.persistent
    /\ \E n \in Calls("multiple_matches") : trace[n].a = <<"Apple", "Apricot">>
    /\ parser = "menu"

\* the line matches no item
NoMatch ==
    MenuLine /\ (op.arg = "" \/ (~SelectsByIndex /\ Len(LabelMatches) = 0))

\* C19: for a line that matches no item, the empty line included, the
\* no-match hook is called; it sends the notice, after which a Menu that is
\* not persistent makes the dispatcher it was attached over current, and a
\* persistent Menu explains itself again and stays current.
C19_NoMatch ==
    NoMatch
    => /\ Cardinality(Calls("no_matches")) = 1
       /\ \A n \in Calls("no_matches") :
             /\ Len(sent) > trace[n].n
             /\ sent[trace[n].n + 1] = "Invalid selection."
             /\ IF op.persistent
                THEN /\ n = Len(trace)
                     /\ parser = "menu"
                     /\ Len(sent) >= trace[n].n + 3
                     /\ sent[trace[n].n + 2] = title
                     /\ sent[Len(sent)] = menu_prompt
                ELSE /\ n + 2 \in Calls("on_attach")
                     /\ trace[n + 2].d = op.over
                     /\ parser = op.over

----------------------------------------------------------------------------
(* The claims about the Reader *)

\* a line that is not the abort token reaches a Reader in single-line mode
\* whose restore_parser the application has not set
SingleLine ==
    /\ IsLine /\ op.d = "reader" /\ ~op.multiline
    /\ op.arg # abort_command /\ op.restore_parser = None

\* C20: a Reader in single-line mode completes on the first line that is
\* not the abort token: the dispatcher it was attached over is made
\* current, and then done is called exactly once, with the line as the text
\* of its Caller.
C20_SingleLineCompletes ==
    SingleLine
    => /\ Cardinality(Calls("done")) = 1
       /\ \A n \in Calls("done") :
             /\ trace[n].o = op.arg
             /\ n - 1 \in Calls("on_attach")
             /\ trace[n - 1].d = op.over
             /\ trace[n].p = op.over
       /\ parser = op.over

\* a line that is no token but possibly the finish token reaches a Reader in
\* multi-line mode whose restore_parser the application has not set
MultiLine ==
    /\ IsLine /\ op.d = "reader" /\ op.multiline
    /\ op.arg \notin {abort_command, spell_check_command}
    /\ op.restore_parser = None

\* what the buffer may be after line, when it was b before: the lines
\* received so far joined by the line separator (an empty b is the buffer
\* before the first line, or after a first line that was empty)
Joined(b, line) ==
    IF b = "" THEN {line, line_separator \o line}
    ELSE {b \o line_separator \o line}

\* C21: a Reader in multi-line mode adds every line, the empty line
\* included, to the buffer, joined by the line separator, and stays the
\* dispatcher; on the finish token the dispatcher it was attached over is
\* made current and done is called exactly once with the buffer as text.
C21_MultiLineJoins ==
    MultiLine
    => IF op.arg = done_command
       THEN /\ Cardinality(Calls("done")) = 1
            /\ \A n \in Calls("done") :
                  /\ trace[n].o = op.buffer
                  /\ n - 1 \in Calls("on_attach")
                  /\ trace[n - 1].d = op.over
            /\ parser = op.over
       ELSE /\ Calls("done") = {}
            /\ parser = "reader"
            /\ buffer \in Joined(op.buffer, op.arg)

\* the line is the abort token of the Reader or, in multi-line mode, its
\* finish token
ReaderToken ==
    op.arg = abort_command \/ (op.multiline /\ op.arg = done_command)

\* C22: a line that a Reader accepts triggers after_line exactly once; the
\* finish token and the abort token trigger neither after_line nor
\* before_line.
C22_HooksAroundAccepted ==
    (IsLine /\ op.d = "reader")
    => IF ReaderToken
       THEN Calls("after_line") = {} /\ Calls("before_line") = {}
       ELSE op.arg # spell_check_command => Cardinality(Calls("after_line")) = 1

----------------------------------------------------------------------------
(* The claims about YesOrNo *)

\* a line that is not the abort token reaches a YesOrNo whose
\* restore_parser the application has not set
YesOrNoLine ==
    /\ IsLine /\ op.d = "yesno"
    /\ op.arg # abort_command /\ op.restore_parser = None

\* what the line asks for: yes, no, or the abort flow
Answer ==
    IF StartsWith(Lower(op.arg), "y") THEN "yes"
    ELSE IF op.no # None THEN "no"
    ELSE "do_abort"

\* C23: for every line that is not the abort token, the empty line
\* included, exactly one of yes, no and the abort flow runs, the one the
\* line asks for, and before a callback runs the dispatcher the YesOrNo was
\* attached over is made current.
C23_ExactlyOneAnswer ==
    YesOrNoLine
    => /\ Cardinality(Calls("yes") \cup Calls("no") \cup Calls("do_abort")) = 1
       /\ Cardinality(Calls(Answer)) = 1
       /\ \A n \in Calls("yes") \cup Calls("no") :
             /\ n - 1 \in Calls("on_attach")
             /\ trace[n - 1].d = op.over
             /\ trace[n].p = op.over

----------------------------------------------------------------------------
(* The claims about the line before the loop over the overloads *)

\* the first character of the line is a key of the substitution table
HasKey == op.arg # "" /\ HasSubstitution(op.d, CharAt(op.arg, 1))

\* substitution[c] + separator + the rest of the line
Rewritten ==
    IF HasKey
    THEN Substitution(op.d, CharAt(op.arg, 1)) \o command_separator \o From(op.arg, 1)
    ELSE op.arg

\* The line was dispatched with name parts[1] and argument string parts[2]:
\* the overloads that were tried are overloads of the name, unless there
\* are none; a pattern was matched against the argument string, and the
\* captures of a handler are those of that match.
Dispatched(parts) ==
    LET cmds == get_commands(op.d, parts[1])
        Fits(k) == Match(cmds[k].args_regexp[1], parts[2])
    IN /\ \A n \in Calls("ok_for") : trace[n].k \in DOMAIN cmds
       /\ (cmds # <<>> /\ exc = None) => Calls("ok_for") # {}
       /\ \A n \in Calls("match") :
             (n + 1 \in Calls("explain")) <=> ~Fits(trace[n].k).ok
       /\ \A n \in Calls("func") :
             trace[n].a = IF cmds[trace[n].k].args_regexp = NoPattern THEN <<>>
                          ELSE Fits(trace[n].k).groups

\* C24 as claimed: a line whose first character c is a key is dispatched
\* with the name substitution[c] and the rest of the line as the argument
\* string, any other line with the name and argument string it splits into.
C24_NameIsSubstitution ==
    IsLine
    => Dispatched(IF HasKey
                  THEN <<Substitution(op.d, CharAt(op.arg, 1)), From(op.arg, 1)>>
                  ELSE split(op.arg))

\* C24 as amended: the line is rewritten once, before it is split, and
\* dispatched with the name and the argument string that the rewritten line
\* splits into; huh gets the rewritten line as the text.
C24_RewrittenThenSplit ==
    IsLine
    => /\ Dispatched(split(Rewritten))
       /\ \A n \in Calls("huh") : trace[n].o = Rewritten

\* !north with ! for look runs a handler of look with the captures of north
C24_Witness ==
    /\ IsLine /\ op.arg = "!north" /\ HasKey
    /\ Substitution(op.d, "!") = "look"
    /\ \E n \in Calls("func") : trace[n].a = <<"orth">>

\* C25: when pre_command returns False for a line, handle_line returns None
\* at once: no ok_for, no handler, no explanation, no on_error and no huh
\* is called, nothing is sent, and the dispatcher of the connection stays.
C25_RefusedIsSilent ==
    (IsLine /\ op.d \in refuses)
    => /\ trace = <<>>
       /\ sent = <<>>
       /\ ret = <<>>
       /\ exc = None
       /\ parser = op.d

\* a refused line that names a command with two overloads
C25_Witness ==
    /\ IsLine /\ op.d \in refuses /\ ret = <<>>
    /\ op.arg = "look" /\ Len(get_commands(op.d, "look")) = 2

\* C26: for every line that pre_command allowed, post_command is called
\* exactly once, after the loop over the overloads has ended, however it
\* ended.
C26_PostCommandOnce ==
    (IsLine /\ op.d \notin refuses)
    => /\ Cardinality(Calls("post_command")) = 1
       /\ \A n \in Calls("post_command") :
             \A m \in Calls("ok_for") \cup Calls("match") \cup Calls("func") : m < n

\* C27: handle_line returns the number of overloads whose handler was
\* called for the line, each counted once, whether the handler returned,
\* raised DontStopException or faulted; it returns None exactly when no
\* handler was called.
C27_ReturnsCount ==
    (IsLine /\ exc = None)
    => /\ ret = IF Calls("func") = {} THEN <<>> ELSE <<Cardinality(Calls("func"))>>
       /\ \A n, m \in Calls("func") : trace[n].k = trace[m].k => n = m

\* two handlers were called, the first of which faulted
C27_Witness ==
    /\ IsLine /\ ret = <<2>>
    /\ Calls("on_error") # {}
    /\ Cardinality(Calls("func")) = 2

----------------------------------------------------------------------------
(* The claims about the permissions *)

\* the functions of the application that were called, in order
Called == [n \in DOMAIN trace |-> trace[n].o]

RECURSIVE True(_), CallsOf(_), CallsUpTo(_, _)

\* the value of permission v for the Caller of the last operation
True(v) ==
    CASE v.func = "all" -> \A i \in DOMAIN v.validators : True(v.validators[i])
      [] v.func = "any" -> \E i \in DOMAIN v.validators : True(v.validators[i])
      [] OTHER -> v.name \in op.arg.holds

\* the calls that v makes when the validators after the first one that
\* decides are not called: the first False one for and_, the first True one
\* for or_
CallsUpTo(v, i) ==
    IF i = 0 THEN <<>> ELSE CallsUpTo(v, i - 1) \o CallsOf(v.validators[i])

CallsOf(v) ==
    LET deciding == {i \in DOMAIN v.validators :
                        True(v.validators[i]) = (v.func = "any")}
        last == IF deciding = {} THEN Len(v.validators)
                ELSE CHOOSE i \in deciding : \A j \in deciding : i <= j
    IN IF v.func = "predicate" THEN <<v.name>> ELSE CallsUpTo(v, last)

\* C28: and_ is True iff every validator is, or_ iff some validator is, also
\* when a validator is itself an and_ or an or_; no validator is called
\* after the first one that decides.
C28_Combinators ==
    op.name = "ok_for"
    => /\ ret = <<True(op.arg.permission)>>
       /\ Called = CallsOf(op.arg.permission)

\* or_(and_(p, q), q) for a Caller that p refuses: p is called, q is not
\* called by and_, and q is called by or_
C28_Witness ==
    /\ op.name = "ok_for"
    /\ op.arg.permission = or_(<<and_(<<predicate("p"), predicate("q")>>), predicate("q")>>)
    /\ op.arg.holds = {"q"}
    /\ Called = <<"p", "q">>
    /\ ret = <<TRUE>>

----------------------------------------------------------------------------
(* The claims about notify and about the registry *)

\* C29: notify with an override sends no text for the override itself: it
\* assigns the override to the dispatcher of the connection (on_detach of
\* the old dispatcher, then on_attach of the override), and on_attach sends
\* what the override explains itself with, once.
C29_NotifyAttaches ==
    op.name = "notify"
    => /\ parser = op.arg
       /\ Len(trace) = 2
       /\ trace[1].ev = "on_detach" /\ trace[1].d = op.d /\ trace[1].o = op.arg
       /\ trace[2].ev = "on_attach" /\ trace[2].d = op.arg /\ trace[2].o = op.d
       /\ trace[2].n = 0
       /\ sent # <<>>
       /\ sent = explain_intercept(op.arg, World).sent

\* a YesOrNo is handed to notify while alt is the dispatcher
C29_Witness ==
    /\ op.name = "notify" /\ op.arg = "yesno" /\ op.d = "alt"
    /\ sent = <<question, yesno_prompt>>
    /\ parser = "yesno"

\* the places of object c in the list of name
Places(registry, name, c) ==
    IF name \notin DOMAIN registry THEN {}
    ELSE {i \in DOMAIN registry[name] : registry[name][i] = c}

\* C30: in the registry of a Parser, a Command is once in the list of each
\* of its names and in no other list, as the same object, and every list is
\* in the order of registration; a line that names the Command by any of
\* its names runs the handler of that object.
C30_Buckets ==
    /\ \A r \in Registries :
          LET registry == commands[r]
          IN /\ \A c \in Objects(registry) :
                   /\ \A i \in DOMAIN c.names :
                         Cardinality(Places(registry, c.names[i], c)) = 1
                   /\ \A name \in DOMAIN registry :
                         Places(registry, name, c) # {}
                         => \E i \in DOMAIN c.names : c.names[i] = name
             /\ \A name \in DOMAIN registry :
                   \A i, j \in DOMAIN registry[name] :
                      i < j => registry[name][i].id < registry[name][j].id
    /\ IsLine
       => \A n \in Calls("func") :
             (n + 1 \in Calls("on_error")) <=> (Overloads[trace[n].k].func = "raise")

\* a Command with the names look and l was registered after a Command l,
\* and the line l runs both
C30_Witness ==
    /\ IsLine /\ op.arg = "l" /\ ret = <<2>>
    /\ Len(Overloads) = 2
    /\ Overloads[1].names = <<"l">>
    /\ Overloads[2].names = <<"look", "l">>
    /\ Overloads[2] = get_commands(op.d, "look")[1]

----------------------------------------------------------------------------
(* The claims about the construction of menus and commands *)

\* C31: every item of a Menu has its position in the item list, counted
\* from one, as its index, also after items were added with Menu.item; and
\* Menu.item raises nothing.
C31_ItemsIndexed ==
    /\ "menu" \in Live(parser, restore_parser)
       => \A k \in DOMAIN items : items[k].index = k
    /\ op.name = "item" => exc = None

\* the str that a Command of SpecNames was registered with; every Command
\* of SpecNames is registered by command_str
NamesStr(c) == Join(c.names, "")

\* C32: a Command registered with a str s as names is in the list of s and
\* in no other list, and a handler that runs for a line is the handler of a
\* Command whose str is the name that the line was parsed to.
C32_OneBucket ==
    /\ \A r \in Registries : \A name \in DOMAIN commands[r] :
          \A i \in DOMAIN commands[r][name] : NamesStr(commands[r][name][i]) = name
    /\ \A r \in Registries : \A c \in Objects(commands[r]) :
          /\ NamesStr(c) \in DOMAIN commands[r]
          /\ Cardinality(Places(commands[r], NamesStr(c), c)) = 1
    /\ IsLine => \A n \in Calls("func") :
                    NamesStr(Overloads[trace[n].k]) = LineParts[1]

----------------------------------------------------------------------------
(* The claim about the abort flow of a YesOrNo *)

\* a YesOrNo without a no callback gets a line that is not empty, is not
\* the abort token and does not start with "y"
DeclinedWithoutNo ==
    /\ IsLine /\ op.d = "yesno" /\ op.no = None
    /\ op.arg # "" /\ op.arg # abort_command
    /\ ~StartsWith(Lower(op.arg), "y")

\* C33: for such a line the dispatcher is assigned once: one attach hook
\* runs, that of the dispatcher that is current after the line, and the
\* aborted notice is sent once.
C33_RestoredOnce ==
    DeclinedWithoutNo
    => /\ Cardinality(Calls("on_attach")) = 1
       /\ \A n \in Calls("on_attach") : trace[n].d = parser
       /\ Cardinality({n \in DOMAIN sent : sent[n] = aborted}) = 1

====
